---- MODULE Spec2Model ----
(***************************************************************************)
(* CivicSignal: the meeting ingestion-and-indexing pipeline.               *)
(*   civicsignal/ingest/archives.py   SanFranciscoArchiveSource / Parser   *)
(*   civicsignal/transform/embed_meeting.py   MeetingRAGDb                 *)
(*   civicsignal/cli.py               embed, backfill                      *)
(*   civicsignal/utils.py             Meeting, Paragraph                   *)
(* Dates are day numbers; a timedelta is a difference of day numbers.      *)
(***************************************************************************)
EXTENDS Integers, Sequences, FiniteSets, TLC

(***************************************************************************)
(* Bounds of the model.                                                    *)
(***************************************************************************)
MaxDate == 2
MaxFeedLen == 1

Dates == 1..MaxDate

(***************************************************************************)
(* SanFranciscoArchiveSource: member names and their values.  A name is    *)
(* kept as the sequence of its words (the pieces between underscores), so  *)
(* that file names can be matched against a glob pattern and split at      *)
(* underscores as the code does.                                           *)
(***************************************************************************)
Sources == {"PRESS_CONFERENCE", "MAYORS_PRESS_CONFERENCE"}

NameWords(s) ==
  CASE s = "PRESS_CONFERENCE" -> <<"PRESS", "CONFERENCE">>
    [] s = "MAYORS_PRESS_CONFERENCE" -> <<"MAYORS", "PRESS", "CONFERENCE">>

SourceValue(s) ==
  CASE s = "PRESS_CONFERENCE" -> 38
    [] s = "MAYORS_PRESS_CONFERENCE" -> 18

\* the names the enum declares for these sources, in declaration order, with
\* their values: a name whose value an earlier name has is an alias of it
Declared ==
  <<[name |-> "MAYORS_PRESS_CONFERENCE", value |-> 18],
    [name |-> "MAYORS_PRESS_CONFERENCE_1", value |-> 18],
    [name |-> "PRESS_CONFERENCE", value |-> 38]>>

DeclaredNames == {Declared[i].name : i \in DOMAIN Declared}

\* SanFranciscoArchiveSource[name]: the member of the name's value, which
\* is the first declaration of that value; its .name is what the code uses
SourceByName(n) ==
  LET i == CHOOSE i \in DOMAIN Declared : Declared[i].name = n
      first == CHOOSE j \in DOMAIN Declared :
                 /\ Declared[j].value = Declared[i].value
                 /\ \A k \in DOMAIN Declared : Declared[k].value = Declared[i].value => j <= k
  IN Declared[first].name

(***************************************************************************)
(* Feeds.  A feed entry carries its publication date and the clip it       *)
(* links to.  A fetched feed is a sequence of entries; a feed whose fetch  *)
(* raised is absent (None).                                                *)
(***************************************************************************)
\* clip 0: the entry's video link is not a DownloadFile.php link
Clips == {0, 1}
Entries == [published : Dates, clip : Clips]
NoFeed == [present |-> FALSE, entries |-> <<>>]
Feed(es) == [present |-> TRUE, entries |-> es]

SeqsUpTo(S, n) == UNION {[1..k -> S] : k \in 0..n}

\* the date of a feed entry (published_parsed -> datetime.date)
get_date_from_feed_entry(entry) == entry.published

\* datetime.timedelta(days=1), the default of date_tolerance
date_tolerance == 1

\* results of operations: a returned value or a raised exception
Ok(v) == [ok |-> TRUE, val |-> v, err |-> "none"]
Raise(e) == [ok |-> FALSE, val |-> <<>>, err |-> e]

\* a tolerance that excludes its bound
EntryMatches_strict(entry_date, date, tolerance) ==
  entry_date = date \/ (entry_date - date) < tolerance

\* the test of one entry in _get_rss_entry_from_date
EntryMatches(entry_date, date, tolerance) ==
  entry_date = date \/ (entry_date - date) <= tolerance

RECURSIVE ScanEntries(_, _, _, _)
ScanEntries(entries, i, date, tolerance) ==
  IF i > Len(entries) THEN Raise("NoRssEntry")
  ELSE IF EntryMatches(get_date_from_feed_entry(entries[i]), date, tolerance)
       THEN Ok(entries[i])
       ELSE ScanEntries(entries, i + 1, date, tolerance)

_get_rss_entry_from_date(date, rss_feed, tolerance) ==
  ScanEntries(rss_feed.entries, 1, date, tolerance)

\* the href of the entry's audio / video link
get_audio_url_from_rss_entry(entry) == <<"audio", entry.clip>>
get_video_url_from_rss_entry(entry) == <<"video", entry.clip>>

\* CLIP_ID_REGEX.search(video_url): the clip id, or "" (0) with a warning
get_clip_id_from_video_url(video_url) == video_url[2]

\* the embeddable player link .../player/clip/{clip_id}?view_id={value}...
video_url_from_clip_id(value, clip_id) == <<"player/clip", clip_id, value>>

\* self.audio_rss_feed.entries[0]
last_meeting_date(parser) ==
  IF ~parser.audio_rss_feed.present THEN Raise("NoAudioFeed")
  ELSE IF Len(parser.audio_rss_feed.entries) = 0 THEN Raise("IndexError")
  ELSE Ok(get_date_from_feed_entry(parser.audio_rss_feed.entries[1]))

all_meeting_dates(parser) ==
  IF ~parser.audio_rss_feed.present THEN Raise("NoAudioFeed")
  ELSE Ok([i \in 1..Len(parser.audio_rss_feed.entries) |->
             get_date_from_feed_entry(parser.audio_rss_feed.entries[i])])

\* a resolver whose audio operations need both feeds
get_audio_url_from_date_both(parser, date) ==
  IF ~parser.audio_rss_feed.present \/ ~parser.video_rss_feed.present
  THEN Raise("NoAudioFeed")
  ELSE LET e == _get_rss_entry_from_date(date, parser.audio_rss_feed, date_tolerance)
       IN IF e.ok THEN Ok(get_audio_url_from_rss_entry(e.val)) ELSE e

get_audio_url_from_date(parser, date) ==
  IF ~parser.audio_rss_feed.present THEN Raise("NoAudioFeed")
  ELSE LET e == _get_rss_entry_from_date(date, parser.audio_rss_feed, date_tolerance)
       IN IF e.ok THEN Ok(get_audio_url_from_rss_entry(e.val)) ELSE e

get_video_url_from_date(parser, date) ==
  IF ~parser.video_rss_feed.present THEN Raise("NoVideoFeed")
  ELSE LET e == _get_rss_entry_from_date(date, parser.video_rss_feed, date_tolerance)
       IN IF e.ok THEN Ok(get_video_url_from_rss_entry(e.val)) ELSE e

(***************************************************************************)
(* The transcription engine's result (PrerecordedResponse): paragraphs     *)
(* with their sentences, and topic segments.  None is written NoneVal.     *)
(***************************************************************************)
NoneVal == -1

RawParagraph(st, en, sp, ss) == [start |-> st, end |-> en, speaker |-> sp, sentences |-> ss]

Response0 == [paragraphs |-> <<>>, segments |-> <<>>]
Response1 == [paragraphs |-> <<RawParagraph(0, 5, 0, <<"a">>)>>,
              segments |-> <<<<"housing">>>>]
Response2 == [paragraphs |-> <<RawParagraph(0, 5, 0, <<"a", "b">>),
                               RawParagraph(5, 9, NoneVal, <<"c">>)>>,
              segments |-> <<<<"housing", "budget">>, <<"housing">>>>]
Responses == {Response0, Response1, Response2}

\* PrerecordedResponse.to_dict(): nested dicts and lists; a field that is
\* None is left out of its dict
ParagraphToDict(p) ==
  LET keys == {"start", "end", "sentences"} \cup (IF p.speaker = NoneVal THEN {} ELSE {"speaker"})
  IN [k \in keys |-> CASE k = "start" -> p.start
                       [] k = "end" -> p.end
                       [] k = "speaker" -> p.speaker
                       [] k = "sentences" -> [i \in 1..Len(p.sentences) |-> [text |-> p.sentences[i]]]]

to_dict(r) ==
  [results |-> [channels |-> <<[alternatives |-> <<[paragraphs |-> [paragraphs |->
                    [i \in 1..Len(r.paragraphs) |-> ParagraphToDict(r.paragraphs[i])]]]>>]>>,
                topics |-> [segments |-> [i \in 1..Len(r.segments) |->
                    [topics |-> [j \in 1..Len(r.segments[i]) |-> [topic |-> r.segments[i][j]]]]]]]]

\* PrerecordedResponse.from_dict(): a key that is missing becomes None
ParagraphFromDict(d) ==
  RawParagraph(d.start, d.end,
               IF "speaker" \in DOMAIN d THEN d.speaker ELSE NoneVal,
               [i \in 1..Len(d.sentences) |-> d.sentences[i].text])

from_dict(d) ==
  LET ps == d.results.channels[1].alternatives[1].paragraphs.paragraphs
      sg == d.results.topics.segments
  IN [paragraphs |-> [i \in 1..Len(ps) |-> ParagraphFromDict(ps[i])],
      segments |-> [i \in 1..Len(sg) |-> [j \in 1..Len(sg[i].topics) |-> sg[i].topics[j].topic]]]

\* json.dump / json.load: the text of a cache file and its parse
json_dump(d) == [json |-> d]
json_load(text) == text.json

\* what a file holds when the process dies between open(path, "w") and the
\* end of json.dump: nothing, or the beginning of the text
PartialTexts(d) == {[written |-> "nothing", of |-> d], [written |-> "beginning", of |-> d]}

\* json.load raises JSONDecodeError on a text that is not a whole document
IsJson(text) == "json" \in DOMAIN text

(***************************************************************************)
(* Cache files.  A file of the cache directory is named                    *)
(* transcript_{date}_{source name}.json; its stem is kept as its words.    *)
(***************************************************************************)
isoformat(date) == ToString(date)
fromisoformat(text) == CHOOSE d \in 1..(MaxDate + 2) : isoformat(d) = text

FileNames == [date : Dates, name : Sources]
StemWords(f) == <<"transcript", isoformat(f.date)>> \o NameWords(f.name)

\* Path.glob(f"transcript_*_{name}.json"): the stem starts with the word
\* transcript, ends with the words of the name, with something between them
GlobMatches(f, name) ==
  LET fw == StemWords(f)
      nw == NameWords(name)
  IN /\ Len(fw) >= Len(nw) + 2
     /\ fw[1] = "transcript"
     /\ \A i \in 1..Len(nw) : fw[Len(fw) - Len(nw) + i] = nw[i]

\* datetime.date.fromisoformat(file.stem.split("_")[1])
DateOfFile(f) == fromisoformat(StemWords(f)[2])

_transcript_path(name, date) == [date |-> date, name |-> name]

(***************************************************************************)
(* utils.Paragraph and utils.Meeting.  The dataclass Meeting declares the  *)
(* fields date, group, transcript and topics; its generated __init__       *)
(* raises TypeError for any other keyword.                                 *)
(***************************************************************************)
Paragraph(st, en, sp, ss) == [start_time |-> st, end_time |-> en, speaker_id |-> sp, sentences |-> ss]

MeetingFields == {"date", "group", "transcript", "topics"}

Meeting(kwargs) ==
  IF DOMAIN kwargs = MeetingFields THEN Ok(kwargs) ELSE Raise("TypeError")

(***************************************************************************)
(* State.                                                                  *)
(***************************************************************************)
VARIABLES
  world,    \* what the outside holds: the feed entries and the engine's answer
  files,    \* the cache directory: file name -> text
  parsers,  \* the live SanFranciscoArchiveParser objects: source -> fields
  store,    \* the vector store collection: its rows (id, document)
  call,     \* the get_meeting_transcript call that is inside the retry loop
  task,     \* the CLI command in progress
  ret,      \* the outcome of the last finished operation
  trace     \* the external effects of the operation in progress, in order

vars == <<world, files, parsers, store, call, task, ret, trace>>

NoneDate == 0
EmptyMap == [x \in {} |-> 0]
NoCall == [active |-> FALSE, src |-> "", date |-> NoneDate, attempt |-> 0]
Idle == [cmd |-> "none"]

\* max_retries of _transcribe_audio
max_retries == 3

NewParser(s, audio, video, trc, disk) ==
  [source |-> s, audio_rss_feed |-> audio, video_rss_feed |-> video,
   transcript_response_cache |-> trc,
   transcript_response_disk_cache |-> disk,
   meeting_cache |-> EmptyMap]

\* a pattern that finds no file
GlobFiles_none(fs, s) == {}

\* the glob loop of __init__: the files the pattern finds
GlobFiles(fs, s) == {f \in DOMAIN fs : GlobMatches(f, s)}

\* the parser's own file of a date is there and json.load can parse it
Readable(fs, s, date) ==
  /\ _transcript_path(s, date) \in DOMAIN fs
  /\ IsJson(fs[_transcript_path(s, date)])

\* the loop body calls _get_transcript_from_disk(date), which raises when
\* the parser's own file of that date is missing or cannot be parsed
InitRaises(fs, s) ==
  \E f \in GlobFiles(fs, s) : ~Readable(fs, s, DateOfFile(f))

\* the exception the constructor raises
InitError(fs, s) ==
  IF \E f \in GlobFiles(fs, s) : _transcript_path(s, DateOfFile(f)) \notin DOMAIN fs
  THEN "NoTranscriptFound"
  ELSE "JSONDecodeError"

\* _get_transcript_from_disk: the parse of the parser's own file of the date
LoadFromDisk(fs, s, date) == from_dict(json_load(fs[_transcript_path(s, date)]))

\* _save_transcript_to_disk: the file the transcript is written to
SavePath(parser, date) ==
  IF date \in DOMAIN parser.transcript_response_disk_cache
  THEN parser.transcript_response_disk_cache[date]
  ELSE _transcript_path(parser.source, date)

\* the index is rebuilt from the file just written
_save_transcript_to_disk_reset(parser, fs, date, transcript) ==
  [parser |-> [parser EXCEPT !.transcript_response_disk_cache = (date :> SavePath(parser, date))],
   files |-> (SavePath(parser, date) :> json_dump(to_dict(transcript))) @@ fs]

_save_transcript_to_disk(parser, fs, date, transcript) ==
  LET path == SavePath(parser, date)
  IN [parser |-> [parser EXCEPT !.transcript_response_disk_cache = (date :> path) @@ @],
      files |-> (path :> json_dump(to_dict(transcript))) @@ fs]

\* meeting_cache[date] = meeting, reached only when Meeting(...) returned
CacheMeeting(parser, date, meeting) ==
  IF ~meeting.ok THEN [parser |-> parser, result |-> meeting]
  ELSE [parser |-> [parser EXCEPT !.meeting_cache = (date :> meeting.val) @@ @],
        result |-> meeting]

\* clip id, embed url and Meeting(...) once the video url is resolved
AssembleFrom(parser, date, response, video_url) ==
  IF ~video_url.ok THEN [parser |-> parser, result |-> video_url]
  ELSE CacheMeeting(parser, date,
         Meeting([date |-> date, group |-> parser.source,
                  group_id |-> SourceValue(parser.source),
                  transcript |-> [i \in 1..Len(response.paragraphs) |->
                     Paragraph(response.paragraphs[i].start, response.paragraphs[i].end,
                               response.paragraphs[i].speaker, response.paragraphs[i].sentences)],
                  topics |-> UNION {{response.segments[i][j] : j \in DOMAIN response.segments[i]} :
                                      i \in DOMAIN response.segments},
                  video_url |-> video_url.val,
                  embed_url |-> video_url_from_clip_id(SourceValue(parser.source),
                                                       get_clip_id_from_video_url(video_url.val))]))

\* get_meeting_transcript from the raw response on: paragraphs, topics,
\* video url, clip id, embed url, Meeting(...), meeting_cache
Assemble(parser, date, response) ==
  AssembleFrom(parser, date, response, get_video_url_from_date(parser, date))

(***************************************************************************)
(* MeetingRAGDb.embed_meeting: one document per paragraph, upserted by id. *)
(***************************************************************************)
RECURSIVE JoinSpace(_)
JoinSpace(ss) ==
  IF Len(ss) = 0 THEN ""
  ELSE IF Len(ss) = 1 THEN ss[1]
  ELSE ss[1] \o " " \o JoinSpace(Tail(ss))

\* Paragraph.text
ParagraphText(paragraph) == JoinSpace(paragraph.sentences)

\* f"{meeting.date}_{meeting.group}_{paragraph.start_time}_{paragraph.end_time}"
DocId(meeting, paragraph) ==
  <<isoformat(meeting.date), meeting.group, paragraph.start_time, paragraph.end_time>>

DocOf(meeting, paragraph) ==
  [document |-> ParagraphText(paragraph),
   metadata |-> [start_time |-> paragraph.start_time,
                 end_time |-> paragraph.end_time,
                 speaker_id |-> paragraph.speaker_id,
                 meeting_date |-> isoformat(meeting.date),
                 meeting_group |-> meeting.group,
                 video_url |-> meeting.video_url]]

\* collection.add: a row is appended whatever the collection holds
UpsertOne_add(st, id, doc) == Append(st, [id |-> id, doc |-> doc])

\* collection.upsert of one document: the row that has the id is replaced,
\* and a new row is added when there is none
UpsertOne(st, id, doc) ==
  IF \E i \in 1..Len(st) : st[i].id = id
  THEN [i \in 1..Len(st) |-> IF st[i].id = id THEN [id |-> id, doc |-> doc] ELSE st[i]]
  ELSE Append(st, [id |-> id, doc |-> doc])

\* collection.upsert(ids, documents, metadatas)
RECURSIVE Upsert(_, _, _)
Upsert(st, ids, docs) ==
  IF Len(ids) = 0 THEN st
  ELSE Upsert(UpsertOne(st, ids[1], docs[1]), Tail(ids), Tail(docs))

\* the ids of the documents, in paragraph order
DocIds(meeting) ==
  [i \in 1..Len(meeting.transcript) |-> DocId(meeting, meeting.transcript[i])]

UpsertDocs(st, meeting, ids) ==
  [store |-> Upsert(st, ids, [i \in 1..Len(meeting.transcript) |-> DocOf(meeting, meeting.transcript[i])]),
   result |-> Ok(ids)]

embed_meeting(st, meeting) ==
  IF Len(meeting.transcript) > 0 /\ "video_url" \notin DOMAIN meeting
  THEN [store |-> st, result |-> Raise("AttributeError")]
  ELSE UpsertDocs(st, meeting, DocIds(meeting))

(***************************************************************************)
(* Operations of the parser.                                               *)
(***************************************************************************)
\* the outcome of operation op on the key (src, date)
Key(src, date) == [src |-> src, date |-> date]
Ret(op, key, r) == [op |-> op, key |-> key, ok |-> r.ok, val |-> r.val, err |-> r.err]

\* no operation has finished since the one in progress began
NoRet == Ret("none", Key("", NoneDate), Ok(<<>>))

\* SanFranciscoArchiveParser.__init__: the three feeds are fetched, then
\* every cache file the glob finds is registered and loaded
\* a constructor that indexes the files and reads none
ParserInit_lazy(fs, s, audio, video, disk) ==
  IF InitRaises(fs, s) THEN Raise(InitError(fs, s))
  ELSE Ok(NewParser(s, audio, video, EmptyMap, disk))

ParserInit(fs, s, audio, video, disk) ==
  IF InitRaises(fs, s) THEN Raise(InitError(fs, s))
  ELSE Ok(NewParser(s, audio, video,
                    [d \in DOMAIN disk |-> LoadFromDisk(fs, s, d)], disk))

\* the values transcript_response_disk_cache can end with: for each date a
\* file of that date the glob found (the last one the glob yields)
DiskIndexes(fs, s) ==
  LET found == GlobFiles(fs, s)
      dates == {DateOfFile(f) : f \in found}
  IN {ix \in [dates -> found] : \A d \in dates : DateOfFile(ix[d]) = d}

\* the feed a fetch yields: the entries, or None when the fetch raised
Fetched(up) == IF up THEN Feed(world.entries) ELSE NoFeed

\* get_meeting_transcript has returned or raised
Finished(parser, result, date) ==
  [done |-> TRUE, parser |-> parser, result |-> result, date |-> date]

FinishedAssemble(a, date) == Finished(a.parser, a.result, date)

\* _transcribe_audio's disk branch: the file is loaded into the memory tier
AssembleLoaded(parser, date, t) ==
  Assemble([parser EXCEPT !.transcript_response_cache = (date :> t) @@ @], date, t)

\* _get_raw_transcribed_meeting and the cache branches of _transcribe_audio
\* for the resolved date d (d is the exception when resolving it raised)
StartGetResolved(parser, fs, d) ==
  IF ~d.ok THEN Finished(parser, d, NoneDate)
  ELSE IF d.val \in DOMAIN parser.transcript_response_cache
  THEN FinishedAssemble(Assemble(parser, d.val, parser.transcript_response_cache[d.val]), d.val)
  ELSE IF d.val \in DOMAIN parser.transcript_response_disk_cache
  THEN IF _transcript_path(parser.source, d.val) \in DOMAIN fs
       THEN FinishedAssemble(AssembleLoaded(parser, d.val, LoadFromDisk(fs, parser.source, d.val)), d.val)
       ELSE Finished(parser, Raise("NoTranscriptFound"), d.val)
  ELSE [done |-> FALSE, parser |-> parser, result |-> Ok(<<>>), date |-> d.val]

\* what get_meeting_transcript does before the engine is needed:
\* [done, parser, result] when it finishes, [done = FALSE, date] when
\* _transcribe_audio has to run its loop
StartGet(parser, fs, dateArg) ==
  IF dateArg \in DOMAIN parser.meeting_cache
  THEN Finished(parser, Ok(parser.meeting_cache[dateArg]), dateArg)
  ELSE StartGetResolved(parser, fs,
         IF dateArg = NoneDate THEN last_meeting_date(parser) ELSE Ok(dateArg))

\* one pass of the while loop of _transcribe_audio; outcome is what the
\* download and the engine do in this attempt
\* what one pass of the loop body can end with: the download answers with a
\* status other than 200, transcribe_file raises (a network failure, a
\* rejected API key, a response the client cannot parse), or it returns
AttemptOutcomes == {"http_error", "engine_error", "auth_error", "malformed_response", "ok"}

\* the count is compared before it is incremented
AttemptFailed_late(parser, fs, attempt, events, cause) ==
  IF attempt = max_retries
  THEN [done |-> TRUE, parser |-> parser, files |-> fs, events |-> events,
        attempt |-> attempt + 1,
        result |-> [ok |-> FALSE, val |-> <<max_retries, cause>>, err |-> "TranscribeFailed"]]
  ELSE [done |-> FALSE, parser |-> parser, files |-> fs, events |-> events,
        attempt |-> attempt + 1, result |-> Ok(<<>>)]

\* the failure that ends the loop also empties the memory tier
AttemptFailed_evict(parser, fs, attempt, events, cause) ==
  IF attempt + 1 = max_retries
  THEN [done |-> TRUE, parser |-> [parser EXCEPT !.transcript_response_cache = EmptyMap],
        files |-> fs, events |-> events, attempt |-> attempt + 1,
        result |-> [ok |-> FALSE, val |-> <<max_retries, cause>>, err |-> "TranscribeFailed"]]
  ELSE [done |-> FALSE, parser |-> parser, files |-> fs, events |-> events,
        attempt |-> attempt + 1, result |-> Ok(<<>>)]

\* the attempt failed: the loop goes on, or raises after max_retries
AttemptFailed(parser, fs, attempt, events, cause) ==
  IF attempt + 1 = max_retries
  THEN [done |-> TRUE, parser |-> parser, files |-> fs, events |-> events,
        attempt |-> attempt + 1,
        result |-> [ok |-> FALSE, val |-> <<max_retries, cause>>, err |-> "TranscribeFailed"]]
  ELSE [done |-> FALSE, parser |-> parser, files |-> fs, events |-> events,
        attempt |-> attempt + 1, result |-> Ok(<<>>)]

AttemptAssembled(a, fs, events, attempt) ==
  [done |-> TRUE, parser |-> a.parser, files |-> fs, events |-> events,
   attempt |-> attempt, result |-> a.result]

\* the attempt succeeded: memory tier, cache file, then the assembly
AttemptSaved(sv, date, response, events, attempt) ==
  AttemptAssembled(Assemble(sv.parser, date, response), sv.files, events, attempt)

\* the response is assembled first and stored only once that succeeded
AttemptWithUrl_late(parser, fs, date, attempt, outcome, url) ==
  IF ~url.ok THEN AttemptFailed(parser, fs, attempt, <<>>, url.err)
  ELSE IF outcome = "http_error" THEN AttemptFailed(parser, fs, attempt, <<"download">>, outcome)
  ELSE IF outcome # "ok" THEN AttemptFailed(parser, fs, attempt, <<"download", "transcribe">>, outcome)
  ELSE AttemptAssembled(Assemble(parser, date, world.response), fs,
                        <<"download", "transcribe", "cache_write">>, attempt)

AttemptWithUrl(parser, fs, date, attempt, outcome, url) ==
  IF ~url.ok THEN AttemptFailed(parser, fs, attempt, <<>>, url.err)
  ELSE IF outcome = "http_error" THEN AttemptFailed(parser, fs, attempt, <<"download">>, outcome)
  ELSE IF outcome # "ok" THEN AttemptFailed(parser, fs, attempt, <<"download", "transcribe">>, outcome)
  ELSE AttemptSaved(
         _save_transcript_to_disk(
           [parser EXCEPT !.transcript_response_cache = (date :> world.response) @@ @],
           fs, date, world.response),
         date, world.response, <<"download", "transcribe", "cache_write">>, attempt)

Attempt(parser, fs, date, attempt, outcome) ==
  AttemptWithUrl(parser, fs, date, attempt, outcome, get_audio_url_from_date(parser, date))

(***************************************************************************)
(* What the caller of get_meeting_transcript does with its outcome.        *)
(***************************************************************************)
\* cli.embed after get_meeting_transcript: an exception is echoed and
\* raised again; an empty transcript is a warning; else embed_meeting
EmbedFinish(key, r, tr) ==
  /\ task' = Idle
  /\ parsers' = EmptyMap
  /\ IF ~r.ok
     THEN ret' = Ret("embed", key, r) /\ store' = store /\ trace' = tr
     ELSE IF Len(r.val.transcript) = 0
     THEN ret' = Ret("embed", key, Ok("no_transcript")) /\ store' = store /\ trace' = tr
     ELSE \E e \in {embed_meeting(store, r.val)} :
            /\ store' = e.store
            /\ ret' = Ret("embed", key, e.result)
            /\ trace' = IF e.result.ok THEN tr \o <<"upsert">> ELSE tr

\* a direct call of the parser's method
ApiFinish(s, date, p2, r, tr) ==
  /\ task' = task
  /\ parsers' = [parsers EXCEPT ![s] = p2]
  /\ ret' = Ret("get_meeting_transcript", Key(s, date), r)
  /\ store' = store
  /\ trace' = tr

\* the exception left the loop: nothing after the failed item is attempted
BackfillRecord_abort(t, ok, err) ==
  IF ok
  THEN [t EXCEPT !.num = @ + 1, !.i = @ + 1, !.log = Append(@, "ok")]
  ELSE [t EXCEPT !.failed = Append(@, t.work[t.i]), !.i = Len(t.work) + 1, !.log = Append(@, err)]

\* the exception is caught and the item is not added to the failure list
BackfillRecord_unlisted(t, ok, err) ==
  IF ok
  THEN [t EXCEPT !.num = @ + 1, !.i = @ + 1, !.log = Append(@, "ok")]
  ELSE [t EXCEPT !.i = @ + 1, !.log = Append(@, err)]

\* the end of one pass of the execution loop of cli.backfill: the item is
\* counted, or the exception is caught and the item joins the failure list
BackfillRecord(t, ok, err) ==
  IF ok
  THEN [t EXCEPT !.num = @ + 1, !.i = @ + 1, !.log = Append(@, "ok")]
  ELSE [t EXCEPT !.failed = Append(@, t.work[t.i]), !.i = @ + 1, !.log = Append(@, err)]

\* cli.backfill after get_meeting_transcript: embed_meeting, then the count
ItemFinish(t, s, p2, r, tr) ==
  \E e \in {IF r.ok THEN embed_meeting(store, r.val) ELSE [store |-> store, result |-> r]} :
     /\ task' = BackfillRecord(t, e.result.ok, e.result.err)
     /\ parsers' = [parsers EXCEPT ![s] = p2]
     /\ store' = e.store
     /\ ret' = ret
     /\ trace' = IF e.result.ok THEN tr \o <<"upsert">> ELSE tr

Deliver(s, date, p2, r, tr) ==
  CASE task.cmd = "none" -> ApiFinish(s, date, p2, r, tr)
    [] task.cmd = "embed" -> EmbedFinish(Key(s, date), r, tr)
    [] task.cmd = "backfill" -> ItemFinish(task, s, p2, r, tr)

(***************************************************************************)
(* Initial states.                                                        *)
(***************************************************************************)
\* the feeds of the parser and CLI specifications: every entry links a clip
FeedEntries == SeqsUpTo([published : Dates, clip : {1}], MaxFeedLen)


InitBase ==
  /\ files = EmptyMap
  /\ parsers = EmptyMap
  /\ store = <<>>
  /\ call = NoCall
  /\ task = Idle
  /\ ret = NoRet
  /\ trace = <<>>

Init ==
  /\ world \in [entries : FeedEntries, response : {Response2}]
  /\ InitBase

InitEmbed ==
  /\ world \in [entries : FeedEntries, response : Responses]
  /\ InitBase

(***************************************************************************)
(* Actions.                                                                *)
(***************************************************************************)
\* parser = SanFranciscoArchiveParser(source=s) in a fresh process
Construct(s) ==
  /\ task.cmd = "none" /\ ~call.active
  /\ \E audio_up \in BOOLEAN, video_up \in BOOLEAN :
       IF InitRaises(files, s)
       THEN /\ parsers' = EmptyMap
            /\ ret' = Ret("construct", Key(s, NoneDate), Raise(InitError(files, s)))
       ELSE \E disk \in DiskIndexes(files, s) :
              LET p == ParserInit(files, s, Fetched(audio_up), Fetched(video_up), disk)
              IN /\ parsers' = (s :> p.val)
                 /\ ret' = Ret("construct", Key(s, NoneDate), Ok(s))
  /\ trace' = <<>>
  /\ UNCHANGED <<world, files, store, call, task>>

\* parser.get_meeting_transcript(dateArg) called on the live parser of s
GetMeetingTranscript(s, dateArg) ==
  /\ task.cmd = "none" /\ ~call.active
  /\ s \in DOMAIN parsers
  /\ \E g \in {StartGet(parsers[s], files, dateArg)} :
        IF g.done
        THEN /\ ApiFinish(s, g.date, g.parser, g.result, <<>>)
             /\ call' = call
        ELSE /\ call' = [active |-> TRUE, src |-> s, date |-> g.date, attempt |-> 0]
             /\ trace' = <<>>
             /\ ret' = NoRet
             /\ UNCHANGED <<parsers, store, task>>
  /\ UNCHANGED <<world, files>>

\* one attempt of the retry loop of the call in progress
TranscribeAttempt(outcome) ==
  /\ call.active
  /\ \E a \in {Attempt(parsers[call.src], files, call.date, call.attempt, outcome)} :
        IF a.done
        THEN /\ files' = a.files
             /\ call' = NoCall
             /\ Deliver(call.src, call.date, a.parser, a.result, trace \o a.events)
        ELSE /\ call' = [call EXCEPT !.attempt = a.attempt]
             /\ trace' = trace \o a.events
             /\ UNCHANGED <<files, parsers, store, task, ret>>
  /\ UNCHANGED world

\* civicsignal embed --group group [--date dateArg] [--force]
Embed(group, dateArg, force) ==
  /\ task.cmd = "none" /\ ~call.active
  /\ \E audio_up \in BOOLEAN, video_up \in BOOLEAN :
       IF InitRaises(files, group)
       THEN /\ ret' = Ret("embed", Key(group, dateArg), Raise(InitError(files, group)))
            /\ trace' = <<>>
            /\ parsers' = EmptyMap
            /\ UNCHANGED <<store, call, task>>
       ELSE \E disk \in DiskIndexes(files, group) :
            \E parser \in {ParserInit(files, group, Fetched(audio_up), Fetched(video_up), disk).val} :
            \E meeting_date \in {IF dateArg = NoneDate THEN last_meeting_date(parser) ELSE Ok(dateArg)} :
              IF ~meeting_date.ok
              THEN /\ ret' = Ret("embed", Key(group, dateArg), meeting_date)
                   /\ trace' = <<>>
                   /\ parsers' = EmptyMap
                   /\ UNCHANGED <<store, call, task>>
              ELSE \E g \in {StartGet(parser, files, meeting_date.val)} :
                     IF g.done
                     THEN /\ EmbedFinish(Key(group, meeting_date.val), g.result, <<>>)
                          /\ call' = call
                     ELSE /\ call' = [active |-> TRUE, src |-> group, date |-> g.date, attempt |-> 0]
                          /\ task' = [cmd |-> "embed", force |-> force]
                          /\ parsers' = (group :> parser)
                          /\ trace' = <<>>
                          /\ ret' = NoRet
                          /\ UNCHANGED store
  /\ UNCHANGED <<world, files>>

(***************************************************************************)
(* cli.backfill: the work list.                                            *)
(***************************************************************************)
\* list.sort(key=...): a stable sort, by insertion
RECURSIVE InsertByKey(_, _, _)
InsertByKey(sorted, x, keyf) ==
  IF Len(sorted) = 0 THEN <<x>>
  ELSE IF keyf[sorted[Len(sorted)]] <= keyf[x] THEN Append(sorted, x)
  ELSE Append(InsertByKey(SubSeq(sorted, 1, Len(sorted) - 1), x, keyf), sorted[Len(sorted)])

RECURSIVE SortByKey(_, _)
SortByKey(seq, keyf) ==
  IF Len(seq) = 0 THEN <<>>
  ELSE InsertByKey(SortByKey(SubSeq(seq, 1, Len(seq) - 1), keyf), seq[Len(seq)], keyf)

Range(seq) == {seq[i] : i \in DOMAIN seq}

\* seq[:n]
Take(seq, n) == SubSeq(seq, 1, IF n < Len(seq) THEN n ELSE Len(seq))

RECURSIVE SeqOfSet(_)
SeqOfSet(S) ==
  IF S = {} THEN <<>>
  ELSE LET m == CHOOSE x \in S : \A y \in S : x <= y
       IN <<m>> \o SeqOfSet(S \ {m})

Perms(S) == {p \in [1..Cardinality(S) -> S] : \A i, j \in DOMAIN p : i # j => p[i] # p[j]}

\* SanFranciscoArchiveParser.all_cached_sources(): the sources whose glob
\* finds a file
all_cached_sources(fs) == {s \in Sources : GlobFiles(fs, s) # {}}

\* parser.get_audio_size_from_date(date): the url, then a HEAD request
get_audio_size_from_date(parser, date, sizes, head_up) ==
  LET url == get_audio_url_from_date(parser, date)
  IN IF ~url.ok THEN url
     ELSE IF ~head_up THEN Raise("ConnectionError")
     ELSE Ok(sizes[date])

\* parser.all_cached_meetings(): get_meeting_transcript for every date of
\* the disk index; these dates are in memory, so no call is made
RECURSIVE CachedMeetings(_, _, _)
PrependDate(date, rest) == [rest EXCEPT !.dates = <<date>> \o @]

CachedMeetingsStep(g, fs, dates) ==
  IF ~g.done \/ ~g.result.ok
  THEN [ok |-> FALSE, err |-> g.result.err, parser |-> g.parser, dates |-> <<>>]
  ELSE PrependDate(g.result.val.date, CachedMeetings(g.parser, fs, dates))

CachedMeetings(parser, fs, dates) ==
  IF Len(dates) = 0 THEN [ok |-> TRUE, err |-> "none", parser |-> parser, dates |-> <<>>]
  ELSE CachedMeetingsStep(StartGet(parser, fs, dates[1]), fs, Tail(dates))

all_cached_meetings(parser, fs) ==
  CachedMeetings(parser, fs, SeqOfSet(DOMAIN parser.transcript_response_disk_cache))

Plan(ok, err, parser, dates) == [ok |-> ok, err |-> err, parser |-> parser, dates |-> dates]

\* dates = parser.all_meeting_dates()
PlanAllDates(parser, all) == Plan(all.ok, all.err, parser, all.val)

\* dates.sort(reverse=True); dates = dates[:max_dates]
PlanLastDates(parser, all, n) ==
  IF ~all.ok THEN Plan(FALSE, all.err, parser, <<>>)
  ELSE Plan(TRUE, "none", parser, Take(SortByKey(all.val, [d \in Range(all.val) |-> 0 - d]), n))

\* maybe_dates.sort(key=get_audio_size_from_date); dates = maybe_dates[:max_dates]
PlanShortest(parser, all, n, sizes, head_up) ==
  IF ~all.ok THEN Plan(FALSE, all.err, parser, <<>>)
  ELSE IF \E i \in DOMAIN all.val : ~get_audio_size_from_date(parser, all.val[i], sizes, head_up).ok
  THEN Plan(FALSE, "AudioSizeFailed", parser, <<>>)
  ELSE Plan(TRUE, "none", parser,
            Take(SortByKey(all.val, [d \in Range(all.val) |->
                                       get_audio_size_from_date(parser, d, sizes, head_up).val]), n))

\* dates = [parser.last_meeting_date()]
PlanLatest(parser, last) ==
  IF ~last.ok THEN Plan(FALSE, last.err, parser, <<>>)
  ELSE Plan(TRUE, "none", parser, <<last.val>>)

\* the else branch: the cached meetings, and when there is none the
\* shortest or the latest meeting
PlanDefault(cached, opts, sizes, head_up) ==
  IF ~cached.ok \/ Len(cached.dates) # 0 THEN cached
  ELSE IF opts.shortest_first
  THEN PlanShortest(cached.parser, all_meeting_dates(cached.parser), opts.max_dates, sizes, head_up)
  ELSE PlanLatest(cached.parser, last_meeting_date(cached.parser))

\* the dates of one source, by the first policy that applies
PlanDates(parser, fs, opts, sizes, head_up) ==
  IF opts.cached_only THEN all_cached_meetings(parser, fs)
  ELSE IF opts.all_dates THEN PlanAllDates(parser, all_meeting_dates(parser))
  ELSE IF opts.max_dates # 0 THEN PlanLastDates(parser, all_meeting_dates(parser), opts.max_dates)
  ELSE PlanDefault(all_cached_meetings(parser, fs), opts, sizes, head_up)

\* the loop over the shuffled sources that fills to_backfill
RECURSIVE PlanWork(_, _, _, _, _, _)
PrependItems(s, dates, rest) ==
  [rest EXCEPT !.work = [i \in 1..Len(dates) |-> [source |-> s, date |-> dates[i]]] \o @]

PlanWorkStep(pl, ps, s, fs, order, opts, sizes, head_up) ==
  IF ~pl.ok THEN [ok |-> FALSE, err |-> pl.err, parsers |-> ps, work |-> <<>>]
  ELSE PrependItems(s, pl.dates,
         PlanWork([ps EXCEPT ![s] = pl.parser], fs, order, opts, sizes, head_up))

PlanWork(ps, fs, order, opts, sizes, head_up) ==
  IF Len(order) = 0 THEN [ok |-> TRUE, err |-> "none", parsers |-> ps, work |-> <<>>]
  ELSE PlanWorkStep(PlanDates(ps[order[1]], fs, opts, sizes, head_up),
                    ps, order[1], fs, Tail(order), opts, sizes, head_up)

\* the sources the options select
SelectedSources(fs, opts) ==
  IF opts.cached_only THEN all_cached_sources(fs)
  ELSE IF opts.group # "" THEN {opts.group}
  ELSE IF opts.all_sources THEN Sources
  ELSE all_cached_sources(fs)

\* the command lines of backfill the model runs; --max-dates is 1 unless given
BackfillOpt(co, g, as, ad, md, sf) ==
  [cached_only |-> co, group |-> g, all_sources |-> as, all_dates |-> ad,
   max_dates |-> md, shortest_first |-> sf]

BackfillOptions ==
  {BackfillOpt(FALSE, "", FALSE, FALSE, 1, FALSE),
   BackfillOpt(TRUE, "", FALSE, FALSE, 1, FALSE),
   BackfillOpt(FALSE, "", TRUE, FALSE, 1, FALSE),
   BackfillOpt(FALSE, "", TRUE, TRUE, 1, FALSE),
   BackfillOpt(FALSE, "", TRUE, FALSE, 0, FALSE),
   BackfillOpt(FALSE, "", TRUE, FALSE, 0, TRUE),
   BackfillOpt(FALSE, "", TRUE, TRUE, 1, TRUE)}
  \cup {BackfillOpt(FALSE, g, FALSE, FALSE, 1, FALSE) : g \in Sources}

\* the Content-Length of the audio of a date
SizeChoices == {[d \in Dates |-> d], [d \in Dates |-> MaxDate + 1 - d]}

BackfillAbort(err) ==
  /\ ret' = Ret("backfill", Key("", NoneDate), Raise(err))
  /\ task' = Idle
  /\ parsers' = EmptyMap

\* civicsignal backfill: from the start to the end of the work list's
\* construction and sort
BackfillStart(opts) ==
  /\ task.cmd = "none" /\ ~call.active
  /\ LET sources == SelectedSources(files, opts)
     IN IF \E s \in sources : InitRaises(files, s)
        THEN BackfillAbort(InitError(files, CHOOSE s \in sources : InitRaises(files, s)))
        ELSE \E audio_up \in [sources -> BOOLEAN],
                disks \in [sources -> UNION {DiskIndexes(files, s) : s \in sources}],
                order \in Perms(sources), sizes \in SizeChoices, head_up \in BOOLEAN :
               /\ \A s \in sources : disks[s] \in DiskIndexes(files, s)
               /\ opts.shortest_first \/ (head_up /\ sizes = [d \in Dates |-> d])
               /\ \E w \in {PlanWork([s \in sources |->
                                         ParserInit(files, s, Fetched(audio_up[s]), Fetched(TRUE), disks[s]).val],
                                      files, order, opts, sizes, head_up)} :
                    IF ~w.ok THEN BackfillAbort(w.err)
                    ELSE \E keys \in {[x \in Range(w.work) |->
                                        get_audio_size_from_date(w.parsers[x.source], x.date, sizes, head_up)]} :
                      IF opts.shortest_first /\ \E x \in DOMAIN keys : ~keys[x].ok
                      THEN BackfillAbort("AudioSizeFailed")
                      ELSE /\ task' = [cmd |-> "backfill",
                                       work |-> IF opts.shortest_first
                                                THEN SortByKey(w.work, [x \in DOMAIN keys |-> keys[x].val])
                                                ELSE w.work,
                                       i |-> 1, failed |-> <<>>, num |-> 0, log |-> <<>>, delays |-> <<>>]
                           /\ parsers' = w.parsers
                           /\ ret' = NoRet
  /\ trace' = <<>>
  /\ UNCHANGED <<world, files, store, call>>

\* one pass of the execution loop, up to the engine if it is needed
BackfillItem ==
  /\ task.cmd = "backfill" /\ ~call.active
  /\ task.i <= Len(task.work)
  /\ \E item \in {task.work[task.i]} :
     \E t \in {[task EXCEPT !.delays =
                  Append(@, item.date \notin DOMAIN parsers[item.source].meeting_cache)]} :
     \E g \in {StartGet(parsers[item.source], files, item.date)} :
        IF g.done
        THEN /\ ItemFinish(t, item.source, g.parser, g.result, <<>>)
             /\ call' = call
        ELSE /\ call' = [active |-> TRUE, src |-> item.source, date |-> g.date, attempt |-> 0]
             /\ task' = t
             /\ trace' = <<>>
             /\ UNCHANGED <<parsers, store, ret>>
  /\ UNCHANGED <<world, files>>

\* the summary after the loop
BackfillSummary ==
  /\ task.cmd = "backfill" /\ ~call.active
  /\ task.i > Len(task.work)
  /\ ret' = Ret("backfill", Key("", NoneDate), Ok([num |-> task.num, failed |-> task.failed]))
  /\ task' = Idle
  /\ parsers' = EmptyMap
  /\ trace' = <<>>
  /\ UNCHANGED <<world, files, store, call>>

\* parser.get_audio_url_from_date(date) / get_video_url_from_date(date)
GetAudioUrlFromDate(s, date) ==
  /\ task.cmd = "none" /\ ~call.active
  /\ s \in DOMAIN parsers
  /\ ret' = Ret("get_audio_url_from_date", Key(s, date), get_audio_url_from_date(parsers[s], date))
  /\ trace' = <<>>
  /\ UNCHANGED <<world, files, parsers, store, call, task>>

GetVideoUrlFromDate(s, date) ==
  /\ task.cmd = "none" /\ ~call.active
  /\ s \in DOMAIN parsers
  /\ ret' = Ret("get_video_url_from_date", Key(s, date), get_video_url_from_date(parsers[s], date))
  /\ trace' = <<>>
  /\ UNCHANGED <<world, files, parsers, store, call, task>>

\* parser.last_meeting_date() / parser.all_meeting_dates()
LastMeetingDate(s) ==
  /\ task.cmd = "none" /\ ~call.active
  /\ s \in DOMAIN parsers
  /\ ret' = Ret("last_meeting_date", Key(s, NoneDate), last_meeting_date(parsers[s]))
  /\ trace' = <<>>
  /\ UNCHANGED <<world, files, parsers, store, call, task>>

AllMeetingDates(s) ==
  /\ task.cmd = "none" /\ ~call.active
  /\ s \in DOMAIN parsers
  /\ ret' = Ret("all_meeting_dates", Key(s, NoneDate), all_meeting_dates(parsers[s]))
  /\ trace' = <<>>
  /\ UNCHANGED <<world, files, parsers, store, call, task>>

\* date resolution: feeds whose entries are distinct clips, published on
\* days around the requested ones
ResolveDates == 1..(MaxDate + 2)
ResolveFeeds ==
  {es \in SeqsUpTo([published : ResolveDates, clip : Clips], MaxFeedLen + 1) :
     \A i, j \in DOMAIN es : i # j => es[i].clip # es[j].clip}

InitResolve ==
  /\ world \in [entries : ResolveFeeds, response : {Response1}]
  /\ InitBase

NextResolve ==
  \/ Construct("PRESS_CONFERENCE")
  \/ \E d \in Dates : GetAudioUrlFromDate("PRESS_CONFERENCE", d)
  \/ \E d \in Dates : GetVideoUrlFromDate("PRESS_CONFERENCE", d)
  \/ LastMeetingDate("PRESS_CONFERENCE")
  \/ AllMeetingDates("PRESS_CONFERENCE")

SpecResolve == InitResolve /\ [][NextResolve]_vars

\* rag_db.embed_meeting(meeting) called on a Meeting-shaped object
EmbedMeeting(meeting) ==
  /\ task.cmd = "none" /\ ~call.active
  /\ \E e \in {embed_meeting(store, meeting)} :
        /\ store' = e.store
        /\ ret' = [op |-> "embed_meeting", key |-> Key(meeting.group, meeting.date),
                   ok |-> e.result.ok, err |-> e.result.err,
                   val |-> [meeting |-> meeting,
                            again |-> ret.op = "embed_meeting" /\ ret.val.meeting = meeting]]
  /\ trace' = <<>>
  /\ UNCHANGED <<world, files, parsers, call, task>>

\* the objects embed_meeting is given: what get_meeting_transcript passes
\* to Meeting(...), and the objects the dataclass of utils.py can hold
MeetingShaped(date, group, response, clip) ==
  [date |-> date, group |-> group, group_id |-> SourceValue(group),
   transcript |-> [i \in 1..Len(response.paragraphs) |->
                     Paragraph(response.paragraphs[i].start, response.paragraphs[i].end,
                               response.paragraphs[i].speaker, response.paragraphs[i].sentences)],
   topics |-> UNION {{response.segments[i][j] : j \in DOMAIN response.segments[i]} :
                       i \in DOMAIN response.segments},
   video_url |-> <<"video", clip>>,
   embed_url |-> video_url_from_clip_id(SourceValue(group), clip)]

Restrict(f, S) == [x \in S |-> f[x]]

MeetingInputs ==
  LET shaped == {MeetingShaped(1, g, r, c) : g \in Sources, r \in Responses, c \in Clips}
  IN shaped \cup {Restrict(m, MeetingFields) : m \in shaped}

NextUpsert == \E m \in MeetingInputs : EmbedMeeting(m)

InitUpsert ==
  /\ world = [entries |-> <<>>, response |-> Response0]
  /\ InitBase

SpecUpsert == InitUpsert /\ [][NextUpsert]_vars

(***************************************************************************)
(* Specifications.                                                         *)
(***************************************************************************)
\* the parser used directly: construction, get_meeting_transcript, retries
NextParser ==
  \/ \E s \in Sources : Construct(s)
  \/ \E s \in Sources, d \in Dates \cup {NoneDate} : GetMeetingTranscript(s, d)
  \/ \E o \in AttemptOutcomes : TranscribeAttempt(o)

SpecParser == Init /\ [][NextParser]_vars

\* the process is killed while _save_transcript_to_disk writes the file of
\* the call in progress: the file is left as far as it was written, and the
\* parser objects are gone with the process
CrashDuringSave ==
  /\ call.active /\ task.cmd = "none"
  /\ get_audio_url_from_date(parsers[call.src], call.date).ok
  /\ \E text \in PartialTexts(to_dict(world.response)) :
       files' = (SavePath(parsers[call.src], call.date) :> text) @@ files
  /\ ret' = Ret("crash", Key(call.src, call.date), Raise("Killed"))
  /\ call' = NoCall
  /\ parsers' = EmptyMap
  /\ trace' = trace \o <<"download", "transcribe">>
  /\ UNCHANGED <<world, store, task>>

NextCrash ==
  \/ NextParser
  \/ CrashDuringSave

SpecCrash == Init /\ [][NextCrash]_vars

\* civicsignal embed --group name: the name is looked up in the enum
EmbedCommand(name, dateArg, force) == Embed(SourceByName(name), dateArg, force)

\* the embed command
NextEmbed ==
  \/ \E n \in DeclaredNames, d \in Dates \cup {NoneDate}, f \in BOOLEAN : EmbedCommand(n, d, f)
  \/ \E o \in {"engine_error", "ok"} : TranscribeAttempt(o)

SpecEmbed == InitEmbed /\ [][NextEmbed]_vars

\* the backfill command
NextBackfill ==
  \/ \E opts \in BackfillOptions : BackfillStart(opts)
  \/ BackfillItem
  \/ BackfillSummary
  \/ \E o \in {"engine_error", "ok"} : TranscribeAttempt(o)

SpecBackfill == Init /\ [][NextBackfill]_vars

(***************************************************************************)
(* Properties.                                                             *)
(***************************************************************************)
RECURSIVE Count(_, _)
Count(tr, ev) ==
  IF Len(tr) = 0 THEN 0
  ELSE (IF tr[1] = ev THEN 1 ELSE 0) + Count(Tail(tr), ev)

LastEvent(tr) == IF Len(tr) = 0 THEN "" ELSE tr[Len(tr)]

InMemory(s, d) == s \in DOMAIN parsers /\ d \in DOMAIN parsers[s].transcript_response_cache
OnDisk(s, d) == _transcript_path(s, d) \in DOMAIN files
Cached(s, d) == InMemory(s, d) \/ OnDisk(s, d)

\* C1: a get_meeting_transcript call for a key whose transcript is cached,
\* in memory or on disk, never enters the transcription loop, and a step
\* that downloads audio or calls the engine belongs to a call for a key
\* that is not cached.
C1_CachedKeyNoCalls ==
  [][/\ (call'.active => ~Cached(call'.src, call'.date))
     /\ (\/ Count(trace', "transcribe") > Count(trace, "transcribe")
         \/ Count(trace', "download") > Count(trace, "download"))
        => (call.active /\ ~Cached(call.src, call.date))]_vars

\* a call for a cached key has returned, having made no call
C1_Witness ==
  /\ ret.op = "get_meeting_transcript"
  /\ ret.key.date # NoneDate
  /\ InMemory(ret.key.src, ret.key.date)
  /\ OnDisk(ret.key.src, ret.key.date)
  /\ trace = <<>>

\* C4: once a transcript t is written under a key, the in-memory tier holds
\* t for that key, and a parser constructed afresh for the source holds t
\* for every key of the source that has a cache file.
C4_RoundTrip ==
  /\ \A s \in DOMAIN parsers : \A d \in DOMAIN parsers[s].transcript_response_cache :
       parsers[s].transcript_response_cache[d] = world.response
  /\ (ret.op = "construct" /\ ~call.active) =>
       \A d \in Dates : OnDisk(ret.key.src, d) =>
         /\ InMemory(ret.key.src, d)
         /\ parsers[ret.key.src].transcript_response_cache[d] = world.response

\* C5: the retry loop makes at most 3 attempts and at most 3 engine calls;
\* a successful attempt ends the loop; the third failure ends it with an
\* error that carries the count 3 and the cause of that failure.
C5_ThreeAttempts ==
  [][/\ Count(trace', "transcribe") <= 3
     /\ call'.active => call'.attempt < 3
     /\ call.active =>
          \/ /\ files' # files \/ LastEvent(trace') = "cache_write"
             /\ ~call'.active
             /\ LastEvent(trace') \in {"cache_write", "upsert"}
          \/ /\ call.attempt < 2
             /\ call' = [call EXCEPT !.attempt = call.attempt + 1]
             /\ files' = files
          \/ /\ call.attempt = 2
             /\ ~call'.active
             /\ files' = files
             /\ ~ret'.ok /\ ret'.err = "TranscribeFailed"
             /\ ret'.val[1] = 3
             /\ ret'.val[2] \in (AttemptOutcomes \ {"ok"}) \cup {"NoAudioFeed", "NoRssEntry"}
             /\ (ret'.val[2] = "http_error" => LastEvent(trace') = "download")
             /\ (ret'.val[2] \in {"engine_error", "auth_error", "malformed_response"}
                   => LastEvent(trace') = "transcribe")]_vars

\* the loop ended after three failed attempts, each of which reached the engine
C5_Witness ==
  /\ ~ret.ok /\ ret.err = "TranscribeFailed"
  /\ Count(trace, "transcribe") = 3

\* the loop ended at a successful second attempt
C5_WitnessSuccess ==
  /\ ~call.active
  /\ Count(trace, "download") = 2
  /\ Count(trace, "cache_write") = 1

IdsOf(st) == {st[i].id : i \in 1..Len(st)}

\* C2: embed_meeting called a second time in a row on the same Meeting
\* leaves the set of document ids and the number of documents as the first
\* call left them, and no id is ever held by two documents.
C2_UpsertIdempotent ==
  [][/\ Cardinality(IdsOf(store')) = Len(store')
     /\ (ret'.op = "embed_meeting" /\ ret'.val.again)
          => (IdsOf(store') = IdsOf(store) /\ Len(store') = Len(store))]_vars

\* a meeting of two paragraphs has been upserted twice in a row
C2_Witness ==
  /\ ret.op = "embed_meeting" /\ ret.ok /\ ret.val.again
  /\ Len(ret.val.meeting.transcript) = 2
  /\ \A i \in 1..2 : DocId(ret.val.meeting, ret.val.meeting.transcript[i]) \in IdsOf(store)

\* the feed a date-resolution call has read, and the url of one of its entries
IsResolve == ret.op \in {"get_audio_url_from_date", "get_video_url_from_date"}
FeedRead ==
  IF ret.op = "get_audio_url_from_date"
  THEN parsers[ret.key.src].audio_rss_feed
  ELSE parsers[ret.key.src].video_rss_feed
UrlOf(entry) ==
  IF ret.op = "get_audio_url_from_date"
  THEN get_audio_url_from_rss_entry(entry)
  ELSE get_video_url_from_rss_entry(entry)

\* C8: the entry a date-resolution call returns for date d is published
\* on a day e with d <= e <= d + 1.
C8_NeverBeforeDate ==
  (IsResolve /\ ret.ok) =>
    \E i \in DOMAIN FeedRead.entries :
      /\ UrlOf(FeedRead.entries[i]) = ret.val
      /\ ret.key.date <= FeedRead.entries[i].published
      /\ FeedRead.entries[i].published <= ret.key.date + 1

\* C9: with the default tolerance, a feed whose only entry is published
\* one day after the requested date resolves to that entry, and a feed
\* whose only entry is published two days after it resolves to nothing.
C9_ToleranceBoundary ==
  (IsResolve /\ FeedRead.present /\ Len(FeedRead.entries) = 1) =>
    LET e == FeedRead.entries[1]
    IN /\ e.published = ret.key.date + 1 => (ret.ok /\ ret.val = UrlOf(e))
       /\ e.published = ret.key.date + 2 => (~ret.ok /\ ret.err = "NoRssEntry")

\* the only entry is one day late and has been returned
C9_Witness ==
  /\ IsResolve /\ FeedRead.present /\ Len(FeedRead.entries) = 1
  /\ FeedRead.entries[1].published = ret.key.date + 1
  /\ ret.ok

\* the only entry is two days late and the call has raised
C9_WitnessTwoDays ==
  /\ IsResolve /\ FeedRead.present /\ Len(FeedRead.entries) = 1
  /\ FeedRead.entries[1].published = ret.key.date + 2
  /\ ~ret.ok

\* C10: a date-resolution call returns the first entry, in feed order,
\* published on the requested date or within the tolerance after it, and
\* raises the not-found error when the feed has no such entry.
C10_FirstMatchOrNotFound ==
  (IsResolve /\ FeedRead.present) =>
    LET es == FeedRead.entries
        matching == {i \in DOMAIN es : /\ ret.key.date <= es[i].published
                                       /\ es[i].published <= ret.key.date + 1}
    IN IF matching = {}
       THEN ~ret.ok /\ ret.err = "NoRssEntry"
       ELSE /\ ret.ok
            /\ ret.val = UrlOf(es[CHOOSE i \in matching : \A j \in matching : i <= j])

\* C3: an embed run for a key with no cache entry, whose engine call
\* returned paragraphs and whose video url resolved, ends with the upsert
\* as its last effect, after the engine call and the write of the cache
\* file, and upserts one document per paragraph under ids that begin with
\* the date and the source name.
C3_EmbedOrder ==
  (/\ ret.op = "embed"
   /\ Count(trace, "cache_write") = 1
   /\ Len(world.response.paragraphs) > 0
   /\ ret.err \notin {"NoVideoFeed", "NoRssEntry"}) =>
    /\ ret.ok
    /\ Count(trace, "transcribe") >= 1
    /\ LastEvent(trace) = "upsert"
    /\ Len(ret.val) = Len(world.response.paragraphs)
    /\ \A i \in DOMAIN ret.val :
         ret.val[i][1] = isoformat(ret.key.date) /\ ret.val[i][2] = ret.key.src

\* C6: while the work list is executed, a step leaves the run in the loop
\* with the same work list; an item that fails is appended to the failure
\* list and the loop moves to the next item; the summary is produced only
\* when every item of the work list has been attempted.
C6_FailureRecorded ==
  [][(task.cmd = "backfill" /\ task.i <= Len(task.work)) =>
       /\ task'.cmd = "backfill"
       /\ task'.work = task.work
       /\ \/ /\ task'.i = task.i
             /\ task'.failed = task.failed /\ task'.num = task.num /\ task'.log = task.log
             /\ call'.active
          \/ /\ task'.i = task.i + 1
             /\ Len(task'.log) = task.i
             /\ IF LastEvent(task'.log) = "ok"
                THEN task'.num = task.num + 1 /\ task'.failed = task.failed
                ELSE task'.num = task.num /\ task'.failed = Append(task.failed, task.work[task.i])]_vars

\* the first of two items failed and the second has been attempted too
C6_Witness ==
  /\ task.cmd = "backfill"
  /\ Len(task.work) = 2 /\ task.i = 3
  /\ Len(task.log) = 2
  /\ task.log[1] # "ok"
  /\ task.failed[1] = task.work[1]

\* C7: a backfill run that has ended has ended with the summary.
C7_SummaryAlways ==
  ret.op = "backfill" => ret.ok

\* C11: an embed run with the force flag for a key that has a cache file
\* enters the transcription loop (a fresh engine call is to be made), and
\* an embed run without the flag for such a key does not.
C11_ForceBypassesCache ==
  [][\A g \in Sources, d \in Dates :
       (OnDisk(g, d) /\ ~InitRaises(files, g)) =>
         /\ Embed(g, d, TRUE) => (call'.active /\ call'.src = g /\ call'.date = d)
         /\ (Embed(g, d, FALSE) /\ ~Embed(g, d, TRUE)) => ~call'.active]_vars

\* the keys of f stay keys of g, with their values
Keeps(f, g) == f = g \/ \A k \in DOMAIN f : k \in DOMAIN g /\ g[k] = f[k]

\* C12: no step removes or rewrites a cache file; a step of a parser
\* instance (any step but a construction, the one step that ends with
\* "construct" as the last operation) keeps every key of its in-memory tier
\* and of its on-disk index, with the transcript and the path it held.
C12_CacheMonotonic ==
  [][/\ Keeps(files, files')
     /\ ret'.op # "construct" =>
          \A s \in DOMAIN parsers :
            /\ s \in DOMAIN parsers'
            /\ Keeps(parsers[s].transcript_response_cache, parsers'[s].transcript_response_cache)
            /\ Keeps(parsers[s].transcript_response_disk_cache,
                     parsers'[s].transcript_response_disk_cache)]_vars

\* a transcription has failed on a parser that holds another key in both tiers
C12_Witness ==
  /\ ret.op = "get_meeting_transcript" /\ ret.err = "TranscribeFailed"
  /\ ret.key.src \in DOMAIN parsers
  /\ \E d \in Dates :
       /\ d # ret.key.date
       /\ d \in DOMAIN parsers[ret.key.src].transcript_response_cache
       /\ d \in DOMAIN parsers[ret.key.src].transcript_response_disk_cache

\* C13: a get_meeting_transcript call whose raw transcript is at hand and
\* whose video url resolves returns a Meeting that has the raw transcript's
\* paragraphs, one for one and in order (start, end, speaker, sentences),
\* and whose topics are the labels of all topic segments, each once.
C13_AssembledMeeting ==
  (/\ ret.op = "get_meeting_transcript"
   /\ InMemory(ret.key.src, ret.key.date)
   /\ ret.err \notin {"NoVideoFeed", "NoRssEntry"}) =>
    LET r == parsers[ret.key.src].transcript_response_cache[ret.key.date]
    IN /\ ret.ok
       /\ Len(ret.val.transcript) = Len(r.paragraphs)
       /\ \A i \in DOMAIN r.paragraphs :
            ret.val.transcript[i] =
              Paragraph(r.paragraphs[i].start, r.paragraphs[i].end,
                        r.paragraphs[i].speaker, r.paragraphs[i].sentences)
       /\ ret.val.topics =
            UNION {{r.segments[i][j] : j \in DOMAIN r.segments[i]} : i \in DOMAIN r.segments}

\* the empty string, as a url
EmptyUrl == <<>>

\* C14: for a resolved video url, the embed url built from it names the
\* clip ('clip/<clip_id>') when the video url is a DownloadFile.php link,
\* and is the empty string when it is not.
C14_EmbedUrl ==
  (ret.op = "get_video_url_from_date" /\ ret.ok) =>
    LET clip_id == get_clip_id_from_video_url(ret.val)
        embed_url == video_url_from_clip_id(SourceValue(ret.key.src), clip_id)
    IN IF ret.val[2] # 0
       THEN embed_url # EmptyUrl /\ embed_url[1] = "player/clip" /\ embed_url[2] = ret.val[2]
       ELSE embed_url = EmptyUrl

\* C15: embed_meeting of a Meeting with N paragraphs into an empty store
\* leaves exactly N documents, one per paragraph, each with the id
\* '{date}_{group}_{start_time}_{end_time}', the paragraph text as document
\* and the metadata start_time, end_time, speaker_id, meeting_date,
\* meeting_group and video_url.
C15_OneDocPerParagraph ==
  [][(ret'.op = "embed_meeting" /\ Len(store) = 0) =>
       /\ Len(store') = Len(ret'.val.meeting.transcript)
       /\ \A i \in 1..Len(ret'.val.meeting.transcript) :
            \E j \in 1..Len(store') :
              /\ store'[j].id = DocId(ret'.val.meeting, ret'.val.meeting.transcript[i])
              /\ store'[j].doc = DocOf(ret'.val.meeting, ret'.val.meeting.transcript[i])]_vars

\* C16: a backfill started with cached_only builds a work list that is
\* exactly the set of (source, date) keys with a transcript cache file on
\* disk, one item per key.
C16_CachedOnlyWorkList ==
  [][\A opts \in BackfillOptions :
       (opts.cached_only /\ BackfillStart(opts)) =>
         /\ task'.cmd = "backfill"
         /\ Range(task'.work) =
              {x \in [source : Sources, date : Dates] : OnDisk(x.source, x.date)}
         /\ Len(task'.work) = Cardinality(Range(task'.work))]_vars

\* C17: under the default policy (not cached_only, not all_dates, max_dates
\* not set) every selected source with nothing cached and a meeting in its
\* feed contributes exactly one item to the work list, a date of its feed,
\* and the most recent one unless shortest_first is set.
C17_DefaultOneItem ==
  [][\A opts \in BackfillOptions :
       (/\ ~opts.cached_only /\ ~opts.all_dates /\ opts.max_dates = 0
        /\ BackfillStart(opts) /\ task'.cmd = "backfill") =>
         \A s \in DOMAIN parsers' :
           (/\ DOMAIN parsers'[s].transcript_response_disk_cache = {}
            /\ all_meeting_dates(parsers'[s]).ok
            /\ Len(all_meeting_dates(parsers'[s]).val) > 0) =>
             LET items == {i \in DOMAIN task'.work : task'.work[i].source = s}
                 dates == Range(all_meeting_dates(parsers'[s]).val)
             IN /\ Cardinality(items) = 1
                /\ \A i \in items :
                     /\ task'.work[i].date \in dates
                     /\ ~opts.shortest_first => \A d \in dates : d <= task'.work[i].date]_vars

\* C18: an embed run whose transcription returned zero paragraphs, and
\* whose video url resolved, ends as a skip with a warning: no exception
\* is raised and nothing is upserted.
C18_EmptyIsSkip ==
  (/\ ret.op = "embed"
   /\ Count(trace, "cache_write") = 1
   /\ Len(world.response.paragraphs) = 0
   /\ ret.err \notin {"NoVideoFeed", "NoRssEntry"}) =>
    /\ ret.ok /\ ret.val = "no_transcript"
    /\ Count(trace, "upsert") = 0

\* the operations that read the audio feed
AudioOps == {"get_audio_url_from_date", "last_meeting_date", "all_meeting_dates"}

\* C19: with an empty cache directory the constructor succeeds whatever
\* the feed fetches did; an operation on the audio feed fails with the
\* no-audio-feed error exactly when the audio feed is None, and otherwise
\* gives the result the audio feed alone determines, also when the video
\* feed is None; get_video_url_from_date fails with the no-video-feed
\* error exactly when the video feed is None.
C19_FeedsIndependent ==
  /\ ret.op = "construct" => ret.ok
  /\ ret.op \in AudioOps =>
       LET audio == parsers[ret.key.src].audio_rss_feed
       IN /\ ~audio.present => (~ret.ok /\ ret.err = "NoAudioFeed")
          /\ audio.present =>
               /\ ret.err \notin {"NoAudioFeed", "NoVideoFeed"}
               /\ ret.op = "all_meeting_dates" =>
                    (ret.ok /\ Len(ret.val) = Len(audio.entries))
               /\ (ret.op = "last_meeting_date" /\ Len(audio.entries) > 0) =>
                    (ret.ok /\ ret.val = get_date_from_feed_entry(audio.entries[1]))
               /\ (ret.op = "get_audio_url_from_date"
                   /\ \E i \in DOMAIN audio.entries :
                        get_date_from_feed_entry(audio.entries[i]) = ret.key.date) => ret.ok
  /\ ret.op = "get_video_url_from_date" =>
       (ret.err = "NoVideoFeed" <=> ~parsers[ret.key.src].video_rss_feed.present)

\* the audio url of a date was resolved on a parser without a video feed
C19_Witness ==
  /\ ret.op = "get_audio_url_from_date" /\ ret.ok
  /\ ~parsers[ret.key.src].video_rss_feed.present
  /\ parsers[ret.key.src].audio_rss_feed.present

\* C20: in the execution loop of backfill the delay is inserted before an
\* item exactly when the item's transcript is not cached, in memory or on
\* disk.
C20_DelayIffFresh ==
  [][(/\ task.cmd = "backfill" /\ task'.cmd = "backfill"
      /\ Len(task'.delays) = Len(task.delays) + 1) =>
       (task'.delays[Len(task'.delays)] <=>
          ~Cached(task.work[task.i].source, task.work[task.i].date))]_vars

\* C21: an attempt of the transcription loop in which the engine raises an
\* authentication error or a malformed-response error ends the call with
\* that failure: no further attempt follows.
C21_NoRetryOnAuth ==
  [][\A o \in {"auth_error", "malformed_response"} :
       (/\ call.active
        /\ get_audio_url_from_date(parsers[call.src], call.date).ok
        /\ TranscribeAttempt(o)) => (~call'.active /\ ~ret'.ok)]_vars

\* C22: every cache file holds a whole document, whatever happened to the
\* process that wrote it, and no parser construction fails on a file that
\* cannot be parsed.
C22_NoPartialFile ==
  /\ \A f \in DOMAIN files : IsJson(files[f])
  /\ ret.op = "construct" => ret.err # "JSONDecodeError"

\* C23: a get_meeting_transcript call that has the key's transcript and
\* resolves its video url succeeds and leaves the Meeting it returns in
\* meeting_cache under the key, and a call that finds its argument in
\* meeting_cache returns that Meeting and leaves the parser as it was.
C23_MeetingCached ==
  [][/\ (/\ ret'.op = "get_meeting_transcript"
         /\ ret'.key.src \in DOMAIN parsers'
         /\ ret'.key.date \in DOMAIN parsers'[ret'.key.src].transcript_response_cache
         /\ ret'.err \notin {"NoVideoFeed", "NoRssEntry"}) =>
          /\ ret'.ok
          /\ ret'.key.date \in DOMAIN parsers'[ret'.key.src].meeting_cache
          /\ parsers'[ret'.key.src].meeting_cache[ret'.key.date] = ret'.val
     /\ \A s \in DOMAIN parsers, d \in Dates :
          (d \in DOMAIN parsers[s].meeting_cache /\ GetMeetingTranscript(s, d)) =>
            (ret'.ok /\ ret'.val = parsers[s].meeting_cache[d] /\ parsers' = parsers)]_vars

\* C24: the step in which the engine completes for a key is taken only
\* when the instance does not hold the key's transcript, and leaves it in
\* the memory tier whatever the assembly does afterwards; the instance
\* then holds it in every later step, so the engine completes at most once
\* per date and instance.
C24_TranscribedOnce ==
  [][/\ (call.active /\ Count(trace', "cache_write") > Count(trace, "cache_write")) =>
          /\ ~InMemory(call.src, call.date)
          /\ call.src \in DOMAIN parsers'
          /\ call.date \in DOMAIN parsers'[call.src].transcript_response_cache
          /\ parsers'[call.src].transcript_response_cache[call.date] = world.response
     /\ ret'.op # "construct" =>
          \A s \in DOMAIN parsers : \A d \in DOMAIN parsers[s].transcript_response_cache :
            /\ s \in DOMAIN parsers'
            /\ d \in DOMAIN parsers'[s].transcript_response_cache]_vars

\* the engine completed, the video url could not be resolved, and the
\* transcript is in the memory tier
C24_Witness ==
  /\ ret.op = "get_meeting_transcript"
  /\ ret.err \in {"NoVideoFeed", "NoRssEntry"}
  /\ Count(trace, "cache_write") = 1
  /\ InMemory(ret.key.src, ret.key.date)

\* C25: from the start of a get_meeting_transcript call to the failure of
\* its last attempt, no step changes a parser (memory tier, disk index,
\* meeting cache) or a cache file, and the failed key is in neither tier.
C25_FailureLeavesState ==
  [][(call'.active \/ (call.active /\ ret'.err = "TranscribeFailed")) =>
       /\ parsers' = parsers
       /\ files' = files
       /\ (ret'.err = "TranscribeFailed" /\ ~call'.active) =>
            /\ ret'.key.date \notin DOMAIN parsers'[ret'.key.src].transcript_response_cache
            /\ ret'.key.date \notin DOMAIN parsers'[ret'.key.src].transcript_response_disk_cache
            /\ ret'.key.date \notin DOMAIN parsers'[ret'.key.src].meeting_cache
            /\ _transcript_path(ret'.key.src, ret'.key.date) \notin DOMAIN files']_vars

\* three attempts reached the engine and the call failed on a rejected key
C25_Witness ==
  /\ ret.op = "get_meeting_transcript" /\ ret.err = "TranscribeFailed"
  /\ ret.val = <<max_retries, "auth_error">>
  /\ Count(trace, "transcribe") = max_retries
  /\ ~Cached(ret.key.src, ret.key.date)

\* C26: every date of a parser's on-disk index is a key of its memory
\* tier, so the branch of get_meeting_transcript that reads a transcript
\* from disk is never the one a call takes.
C26_DiskIndexInMemory ==
  \A s \in DOMAIN parsers :
    DOMAIN parsers[s].transcript_response_disk_cache \subseteq
      DOMAIN parsers[s].transcript_response_cache

\* a parser was constructed over a cache directory that holds a file of its
C26_Witness ==
  /\ ret.op = "construct" /\ ret.ok
  /\ parsers[ret.key.src].transcript_response_disk_cache # EmptyMap

\* C27: cache discovery is per source: the files a parser's index holds
\* are files of its own source, all_cached_sources reports exactly the
\* sources that have a file, and no construction over a directory of whole
\* files fails.
C27_DiscoveryIsolated ==
  /\ \A s \in DOMAIN parsers :
       \A d \in DOMAIN parsers[s].transcript_response_disk_cache :
         parsers[s].transcript_response_disk_cache[d].name = s
  /\ all_cached_sources(files) = {f.name : f \in DOMAIN files}
  /\ ret.op = "construct" => ret.ok

\* C28: when the feed has an entry published on the requested date, a
\* date-resolution call returns an entry published on that date, whatever
\* entries precede it in the feed.
C28_ExactMatchWins ==
  (/\ IsResolve /\ FeedRead.present
   /\ \E i \in DOMAIN FeedRead.entries : FeedRead.entries[i].published = ret.key.date) =>
    /\ ret.ok
    /\ \E i \in DOMAIN FeedRead.entries :
         /\ FeedRead.entries[i].published = ret.key.date
         /\ UrlOf(FeedRead.entries[i]) = ret.val

\* the items of the work list whose pass of the loop raised, in order
RECURSIVE RaisedItems(_, _)
RaisedItems(work, log) ==
  IF Len(log) = 0 THEN <<>>
  ELSE IF log[1] = "ok" THEN RaisedItems(Tail(work), Tail(log))
  ELSE <<work[1]>> \o RaisedItems(Tail(work), Tail(log))

\* C29: while backfill executes its work list, the items before the
\* current one have each been attempted once, in order, the only call in
\* progress is for the current item, the failure list is the items whose
\* attempt raised and the count is the number of the others; so at the
\* summary the count plus the failures is the length of the work list.
C29_BackfillAccounting ==
  task.cmd = "backfill" =>
    /\ task.i \in 1..(Len(task.work) + 1)
    /\ Len(task.log) = task.i - 1
    /\ task.failed = RaisedItems(task.work, task.log)
    /\ task.num = Len(task.log) - Len(task.failed)
    /\ call.active => (/\ task.i <= Len(task.work)
                       /\ call.src = task.work[task.i].source
                       /\ call.date = task.work[task.i].date)
    /\ task.i = Len(task.work) + 1 => task.num + Len(task.failed) = Len(task.work)

\* a work list of two items has been executed to its end
C29_Witness ==
  /\ task.cmd = "backfill" /\ ~call.active
  /\ Len(task.work) = 2 /\ task.i = Len(task.work) + 1
  /\ task.num + Len(task.failed) = 2

\* C30: an embed run for a declared source name n that has to transcribe
\* ingests the key of name n: the parser it builds, the cache file it is
\* about to write and the group of its Meeting carry the name n.
C30_NamePreserved ==
  [][\A n \in DeclaredNames, d \in Dates :
       (EmbedCommand(n, d, FALSE) /\ call'.active) =>
         /\ call'.src = n
         /\ n \in DOMAIN parsers' /\ parsers'[n].source = n
         /\ _transcript_path(call'.src, call'.date) = [date |-> d, name |-> n]]_vars

====
